---- MODULE Spec2Model ----
(***************************************************************************)
(* A model of src/src/index.ts, the useForm hook: the field tree, its      *)
(* mutators (set, touch, push, remove), the asynchronous onChange          *)
(* validators and the submit cycle.                                        *)
(*                                                                         *)
(* Plain values are tagged records: Prim(s), Null, Obj(f), Arr(a).  A      *)
(* Field Node is a record tagged k = "node".  The closures a node carries  *)
(* (set, touch, push, remove) are determined by the node's type, its path  *)
(* and, for an array item, the value captured by createFormFieldInArray    *)
(* (kept in the field cval).                                               *)
(***************************************************************************)
EXTENDS Integers, Sequences, FiniteSets, TLC

VARIABLES state, stateRef, options, optionsRef, pending, subs, ops, escaped, last

vars == <<state, stateRef, options, optionsRef, pending, subs, ops, escaped, last>>

(***************************************************************************)
(* Bounds                                                                  *)
(***************************************************************************)
MaxOps == 2
MaxSubmits == 2
MaxPending == 2
MaxItems == 4

(***************************************************************************)
(* Plain values                                                            *)
(***************************************************************************)
Prim(s) == [k |-> "prim", v |-> s]
Null == [k |-> "null"]
Undefined == [k |-> "undefined"]
Obj(f) == [k |-> "obj", f |-> f]
Arr(a) == [k |-> "arr", a |-> a]

Key(s) == [k |-> "key", s |-> s]
Idx(i) == [k |-> "idx", i |-> i]

\* JavaScript truthiness of a value handed to a validator
Falsy(v) == v.k \in {"null", "undefined"} \/ (v.k = "prim" /\ v.v = "")

\* error attribute values: "undefined", "false", or a message
TruthyError(e) == e \notin {"undefined", "false", "null", ""}

ValidationFailed == "Validation failed"

(***************************************************************************)
(* Validation rules.  A rule node carries optional onChange and onSubmit   *)
(* validators, a partial map of rules for the keys of a record (fields)    *)
(* and a rule for the elements of a sequence (item).  A validator is a     *)
(* pure function given as a table: it answers msg when its argument is in  *)
(* bad (kind "value"), when its argument is a sequence whose length is in  *)
(* bad (kind "length"), or when the property key of its argument is falsy  *)
(* (kind "key"); otherwise it answers false.  mode is how the answer is    *)
(* delivered: "sync", "async" (a promise that resolves), "reject" (a       *)
(* promise that rejects), "throw" or "never" (a promise never settled).    *)
(***************************************************************************)
Fn(kind, bad, key, msg, mode) ==
  [k |-> "fn", kind |-> kind, bad |-> bad, key |-> key, msg |-> msg, mode |-> mode]

Rule(onChange, onSubmit, fields, item) ==
  [k |-> "rule", onChange |-> onChange, onSubmit |-> onSubmit,
   fields |-> fields, item |-> item]

Required(msg, mode) == Fn("value", {Prim(""), Null, Undefined}, "", msg, mode)
NotIn(bad, msg, mode) == Fn("value", bad, "", msg, mode)
LengthIn(bad, msg, mode) == Fn("length", bad, "", msg, mode)
KeyRequired(key, msg, mode) == Fn("key", {}, key, msg, mode)

\* the value a validator function computes for its argument
Eval(fn, value) ==
  CASE fn.kind = "value" -> IF value \in fn.bad THEN fn.msg ELSE "false"
    [] fn.kind = "length" ->
         IF value.k = "arr" /\ Len(value.a) \in fn.bad THEN fn.msg ELSE "false"
    [] fn.kind = "key" ->
         IF Falsy(value) THEN "null"
         ELSE IF value.k = "obj" /\ fn.key \in DOMAIN value.f
                 /\ ~Falsy(value.f[fn.key]) THEN "false"
         ELSE fn.msg

IsRule(r) == r.k = "rule"
HasOnChange(r) == IsRule(r) /\ r.onChange.k = "fn"
HasOnSubmit(r) == IsRule(r) /\ r.onSubmit.k = "fn"

\* () => ((validationFetcher() || {}).fields || {})[key]
FieldRule(r, key) ==
  IF IsRule(r) /\ r.fields.k = "obj" /\ key \in DOMAIN r.fields.f
  THEN r.fields.f[key] ELSE Undefined

\* () => (validatorFetcher() || {}).item
ItemRule(r) == IF IsRule(r) THEN r.item ELSE Undefined

(***************************************************************************)
(* Field-tree builder                                                      *)
(***************************************************************************)
\* a getBasicField that forgets the value it is given
getBasicFieldWithoutValue(path, value) ==
  [k |-> "node", type |-> "basic", path |-> path, touched |-> FALSE,
   error |-> "undefined", validating |-> FALSE, disabled |-> FALSE,
   value |-> Undefined, fields |-> Undefined, items |-> Undefined,
   cval |-> Undefined]

getBasicField(path, value) ==
  [k |-> "node", type |-> "basic", path |-> path, touched |-> FALSE,
   error |-> "undefined", validating |-> FALSE, disabled |-> FALSE,
   value |-> value, fields |-> Undefined, items |-> Undefined,
   cval |-> Undefined]

IdxStr == <<"0", "1", "2", "3", "4">>

\* Object.keys(obj)
ObjectKeys(obj) ==
  IF obj.k = "obj" THEN DOMAIN obj.f
  ELSE IF obj.k = "arr" THEN {IdxStr[i] : i \in 1..Len(obj.a)}
  ELSE {}

\* obj[key]
Prop(obj, key) ==
  IF obj.k = "obj" THEN obj.f[key]
  ELSE obj.a[CHOOSE i \in 1..Len(obj.a) : IdxStr[i] = key]

RECURSIVE createFormField(_, _, _)

createPrimitiveFormField(initValue, path, cval) ==
  [getBasicField(path, initValue) EXCEPT !.type = "primitive", !.cval = cval]

createComplexFormFieldValues(value, path) ==
  Obj([key \in ObjectKeys(value) |->
         createFormField(Prop(value, key), Append(path, Key(key)), Undefined)])

createComplexFormField(initValue, path, cval) ==
  [getBasicField(path, initValue) EXCEPT
     !.type = "complex", !.cval = cval,
     !.fields = createComplexFormFieldValues(initValue, path)]

\* an item builder that gives the item the path of its array
createFormFieldInArrayAtArrayPath(val, index, path) ==
  createFormField(val, path, val)

\* index is 0-based, as in the source; val is captured by the item's setter
createFormFieldInArray(val, index, path) ==
  createFormField(val, Append(path, Idx(index)), val)

createArrayFormField(initValue, path, cval) ==
  [getBasicField(path, initValue) EXCEPT
     !.type = "array", !.cval = cval,
     !.items = Arr([i \in 1..Len(initValue.a) |->
                      createFormFieldInArray(initValue.a[i], i - 1, path)])]

createFormField(initValue, path, cval) ==
  IF initValue.k = "arr" THEN createArrayFormField(initValue, path, cval)
  ELSE IF initValue.k = "obj" THEN createComplexFormField(initValue, path, cval)
  ELSE createPrimitiveFormField(initValue, path, cval)

(***************************************************************************)
(* onChange validation on a value change (getValdator).  A setter chain is *)
(* the sequence of steps that leads from the root to a node: Key(s) into a *)
(* record, CStep(i, val) into a sequence, val being the value captured     *)
(* when the item's field was built.  A pending run remembers the chain of  *)
(* the node whose validator was started and the value it was started with. *)
(***************************************************************************)
CStep(i, cval) == [k |-> "idx", i |-> i, cval |-> cval]

PathOf(chain) ==
  [j \in 1..Len(chain) |->
     IF chain[j].k = "idx" THEN Idx(chain[j].i) ELSE chain[j]]

SlotVal(chain) ==
  IF Len(chain) > 0 /\ chain[Len(chain)].k = "idx"
  THEN chain[Len(chain)].cval ELSE Undefined

Run(chain, newValue, res, settle) ==
  [chain |-> chain, newValue |-> newValue, res |-> res, settle |-> settle]

NoValidation == [threw |-> "", setsError |-> FALSE, error |-> "undefined",
                 validating |-> FALSE, setsValidating |-> FALSE, started |-> <<>>]

\* the object returned by the function getValdator builds, with the runs it
\* starts; threw when the validator throws synchronously
getValdator(validator, newValue, chain) ==
  IF ~HasOnChange(validator)
  THEN [NoValidation EXCEPT !.setsError = TRUE, !.setsValidating = TRUE]
  ELSE LET fn == validator.onChange IN
       CASE fn.mode = "throw" -> [NoValidation EXCEPT !.threw = "validator"]
         [] fn.mode = "sync" ->
              [NoValidation EXCEPT !.setsError = TRUE, !.setsValidating = TRUE,
                                   !.error = Eval(fn, newValue)]
         [] fn.mode = "async" ->
              [NoValidation EXCEPT !.validating = TRUE, !.setsValidating = TRUE,
                 !.started = <<Run(chain, newValue, Eval(fn, newValue), "resolve")>>]
         [] fn.mode = "reject" ->
              [NoValidation EXCEPT !.validating = TRUE, !.setsValidating = TRUE,
                 !.started = <<Run(chain, newValue, ValidationFailed, "reject")>>]
         [] fn.mode = "never" ->
              [NoValidation EXCEPT !.validating = TRUE, !.setsValidating = TRUE,
                 !.started = <<Run(chain, newValue, "undefined", "never")>>]

\* { ...node, ...executeValidation(newValue) }
WithValidation(node, r) ==
  [node EXCEPT !.error = IF r.setsError THEN r.error ELSE @,
               !.validating = IF r.setsValidating THEN r.validating ELSE @]

\* newValue === prev.value
StrictEquals(a, b) == a = b

Result(n, started, threw) == [n |-> n, started |-> started, threw |-> threw]

(***************************************************************************)
(* The updater a mutator hands to its setter, applied to the node prev     *)
(* found at the end of the chain.  op.ck is the type of the node whose     *)
(* closure is called.                                                      *)
(***************************************************************************)
\* a set that stores an object in a primitive field without rebuilding the node
setValueNoTransform(prev, validator, chain, op) ==
  LET r == getValdator(validator, op.v, chain) IN
  Result(WithValidation([prev EXCEPT !.value = op.v], r), r.started, r.threw)

setValue(prev, validator, chain, op) ==
  CASE op.ck = "primitive" ->
         IF op.v.k \in {"obj", "arr"} /\ prev.type # "complex"
         THEN Result(createComplexFormField(op.v, PathOf(chain), SlotVal(chain)),
                     <<>>, "")
         ELSE LET r == getValdator(validator, op.v, chain) IN
              Result(WithValidation([prev EXCEPT !.value = op.v], r),
                     r.started, r.threw)
    [] op.ck = "complex" ->
         LET r == getValdator(validator, op.v, chain) IN
         Result(WithValidation(
                  [prev EXCEPT !.value = op.v,
                               !.fields = IF op.v.k # "null"
                                          THEN createComplexFormFieldValues(
                                                 op.v, PathOf(chain))
                                          ELSE Null], r),
                r.started, r.threw)
    [] op.ck = "array" ->
         LET r == getValdator(validator, op.v, chain) IN
         Result(WithValidation(
                  [prev EXCEPT !.touched = TRUE, !.value = op.v,
                     !.items = Arr([i \in 1..Len(op.v.a) |->
                                 createFormFieldInArray(op.v.a[i], i - 1,
                                                        PathOf(chain))])], r),
                r.started, r.threw)

setTouched(prev, validator, chain, op) ==
  LET arg == IF op.ck = "array" THEN prev.items ELSE prev.value
      r == getValdator(validator, arg, chain) IN
  Result(WithValidation([prev EXCEPT !.touched = TRUE], r), r.started, r.threw)

\* setter(field => { val = originalUpdater(field);
\*                   return { ...val, ...executeValidation(val.value) } })
setterWithValidation(val, validator, chain) ==
  IF HasOnChange(validator)
  THEN LET r == getValdator(validator, val.value, chain) IN
       Result(WithValidation(val, r), r.started, r.threw)
  ELSE Result(val, <<>>, "")

\* a remove that filters the items and keeps the nodes it had
removeKeepingNodes(prev, validator, chain, op) ==
  IF prev.items.k # "arr" THEN Result(prev, <<>>, "TypeError")
  ELSE
  LET old == prev.items.a
      kept == SelectSeq([i \in 1..Len(old) |-> [i |-> i - 1, n |-> old[i]]],
                        LAMBDA e : e.i # op.index)
      val == [prev EXCEPT !.touched = TRUE,
                !.items = Arr([i \in 1..Len(kept) |-> kept[i].n])]
  IN setterWithValidation(val, validator, chain)

\* a remove that leaves touched as it was
removeWithoutTouch(prev, validator, chain, op) ==
  IF prev.items.k # "arr" THEN Result(prev, <<>>, "TypeError")
  ELSE
  LET old == prev.items.a
      kept == SelectSeq([i \in 1..Len(old) |-> [i |-> i - 1, n |-> old[i]]],
                        LAMBDA e : e.i # op.index)
      val == [prev EXCEPT
                !.items = Arr([i \in 1..Len(kept) |->
                            createFormFieldInArray(kept[i].n.value, i - 1,
                                                   PathOf(chain))])]
  IN setterWithValidation(val, validator, chain)

remove(prev, validator, chain, op) ==
  IF prev.items.k # "arr" THEN Result(prev, <<>>, "TypeError")
  ELSE
  LET old == prev.items.a
      kept == SelectSeq([i \in 1..Len(old) |-> [i |-> i - 1, n |-> old[i]]],
                        LAMBDA e : e.i # op.index)
      val == [prev EXCEPT !.touched = TRUE,
                !.items = Arr([i \in 1..Len(kept) |->
                            createFormFieldInArray(kept[i].n.value, i - 1,
                                                   PathOf(chain))])]
  IN setterWithValidation(val, validator, chain)

\* a push that rebuilds every item from its value, as remove does
pushRebuildingItems(prev, validator, chain, op) ==
  IF prev.items.k # "arr" THEN Result(prev, <<>>, "TypeError")
  ELSE
  LET old == prev.items.a
      val == [prev EXCEPT !.touched = TRUE,
                !.items = Arr([i \in 1..(Len(old) + 1) |->
                            createFormFieldInArray(
                              IF i <= Len(old) THEN old[i].value ELSE op.v,
                              i - 1, PathOf(chain))])]
  IN setterWithValidation(val, validator, chain)

push(prev, validator, chain, op) ==
  IF prev.items.k # "arr" THEN Result(prev, <<>>, "TypeError")
  ELSE
  LET val == [prev EXCEPT !.touched = TRUE,
                !.items = Arr(Append(prev.items.a,
                            createFormFieldInArray(op.v, Len(prev.items.a),
                                                   PathOf(chain))))]
  IN setterWithValidation(val, validator, chain)

\* then/catch handlers that commit whatever the field holds by now
settledUnguarded(prev, op) ==
  Result([prev EXCEPT !.error = op.res, !.validating = FALSE], <<>>, "")

\* the then/catch handlers of a settled run
settled(prev, op) ==
  Result(IF StrictEquals(op.newValue, prev.value)
         THEN [prev EXCEPT !.error = op.res, !.validating = FALSE]
         ELSE prev, <<>>, "")

Updater(prev, validator, chain, op) ==
  CASE op.op = "set" -> setValue(prev, validator, chain, op)
    [] op.op = "touch" -> setTouched(prev, validator, chain, op)
    [] op.op = "remove" -> remove(prev, validator, chain, op)
    [] op.op = "push" -> push(prev, validator, chain, op)
    [] op.op = "settled" -> settled(prev, op)

(***************************************************************************)
(* The setter chain: every ancestor rebuilds its own wrapper around the    *)
(* updated child and, when it has an onChange rule, validates itself.      *)
(***************************************************************************)
RECURSIVE Apply(_, _, _, _, _)

\* a setter that rebuilds the sibling fields from their values
ComplexSetterRebuildingSiblings(prev, validator, prefix, rest, op) ==
  LET key == Head(rest).s
      child == Apply(prev.fields.f[key], FieldRule(validator, key),
                     Append(prefix, Head(rest)), Tail(rest), op)
      value == [prev EXCEPT
                  !.fields = Obj([k \in DOMAIN prev.fields.f |->
                                    IF k = key THEN child.n
                                    ELSE createFormField(prev.fields.f[k].value,
                                                         Append(PathOf(prefix), Key(k)),
                                                         Undefined)])]
      r == IF HasOnChange(validator)
           THEN getValdator(validator, value.value, prefix)
           ELSE NoValidation
  IN IF child.threw # "" THEN Result(prev, <<>>, child.threw)
     ELSE Result(WithValidation(value, r), child.started \o r.started, r.threw)

\* createComplexFormField: the setter given to createComplexFormFieldValues
ComplexSetter(prev, validator, prefix, rest, op) ==
  LET key == Head(rest).s
      child == Apply(prev.fields.f[key], FieldRule(validator, key),
                     Append(prefix, Head(rest)), Tail(rest), op)
      value == [prev EXCEPT !.fields = Obj([prev.fields.f EXCEPT ![key] = child.n])]
      \* childDataValidation
      r == IF HasOnChange(validator)
           THEN getValdator(validator, value.value, prefix)
           ELSE NoValidation
  IN IF child.threw # "" THEN Result(prev, <<>>, child.threw)
     ELSE Result(WithValidation(value, r), child.started \o r.started, r.threw)

\* createFormFieldInArray: the setter given to the item's field
ArrayItemSetter(prev, validator, prefix, rest, op) ==
  LET index == Head(rest).i
      val == Head(rest).cval
      hit == index < Len(prev.items.a)
      child == IF hit
               THEN Apply(prev.items.a[index + 1], ItemRule(validator),
                          Append(prefix, Head(rest)), Tail(rest), op)
               ELSE Result(Undefined, <<>>, "")
      updated == [prev EXCEPT
                    !.items = IF hit
                              THEN Arr([prev.items.a EXCEPT ![index + 1] = child.n])
                              ELSE @,
                    !.value = Arr([j \in 1..Len(prev.value.a) |->
                                     IF j - 1 = index THEN val
                                     ELSE prev.value.a[j]])]
      w == setterWithValidation(updated, validator, prefix)
  IN IF child.threw # "" THEN Result(prev, <<>>, child.threw)
     ELSE IF prev.value.k # "arr" THEN Result(prev, <<>>, "TypeError")
     ELSE Result(w.n, child.started \o w.started, w.threw)

Apply(prev, validator, prefix, rest, op) ==
  IF rest = <<>> THEN Updater(prev, validator, prefix, op)
  ELSE IF Head(rest).k = "key"
       THEN ComplexSetter(prev, validator, prefix, rest, op)
       ELSE ArrayItemSetter(prev, validator, prefix, rest, op)

\* the chain can be followed in the tree: every record on the way has the
\* key, every sequence on the way is still an array field
RECURSIVE Live(_, _)
Live(node, rest) ==
  IF rest = <<>> THEN TRUE
  ELSE IF Head(rest).k = "key"
       THEN /\ node.fields.k = "obj"
            /\ Head(rest).s \in DOMAIN node.fields.f
            /\ Live(node.fields.f[Head(rest).s], Tail(rest))
       ELSE /\ node.items.k = "arr"
            /\ IF Head(rest).i >= Len(node.items.a) THEN TRUE
               ELSE Live(node.items.a[Head(rest).i + 1], Tail(rest))

\* the chains of the nodes of a tree, i.e. the mutators a render hands out
RECURSIVE Chains(_, _)
Chains(node, prefix) ==
  {prefix}
  \cup (IF node.fields.k = "obj"
        THEN UNION {Chains(node.fields.f[key], Append(prefix, Key(key))) :
                      key \in DOMAIN node.fields.f}
        ELSE {})
  \cup (IF node.items.k = "arr"
        THEN UNION {Chains(node.items.a[i],
                           Append(prefix, CStep(i - 1, node.items.a[i].cval))) :
                      i \in 1..Len(node.items.a)}
        ELSE {})

RECURSIVE NodeAt(_, _)
NodeAt(node, rest) ==
  IF rest = <<>> THEN node
  ELSE IF Head(rest).k = "key"
       THEN NodeAt(node.fields.f[Head(rest).s], Tail(rest))
       ELSE NodeAt(node.items.a[Head(rest).i + 1], Tail(rest))

(***************************************************************************)
(* Traversals used by the submit cycle                                     *)
(***************************************************************************)
\* the three updaters submit passes to mapFieldsDeep
updater(how, prev) ==
  CASE how = "disable" -> [prev EXCEPT !.disabled = TRUE, !.touched = TRUE]
    [] how = "untouch" -> [prev EXCEPT !.touched = FALSE]
    [] how = "enable" -> [prev EXCEPT !.disabled = FALSE]

RECURSIVE mapFieldsDeep(_, _)
mapFieldsDeep(field, how) ==
  IF field.type = "array"
  THEN [updater(how, field) EXCEPT
          !.value = Arr([i \in 1..Len(field.items.a) |->
                           mapFieldsDeep(field.items.a[i], how)])]
  ELSE IF field.type = "primitive"
  THEN updater(how, field)
  ELSE [updater(how, field) EXCEPT
          !.value = Obj([key \in DOMAIN field.fields.f |->
                           mapFieldsDeep(field.fields.f[key], how)])]

\* mapFieldsDeep and containsError throw a TypeError on a complex field whose
\* fields is null (Object.keys(null))
RECURSIVE VisitThrows(_)
VisitThrows(field) ==
  IF field.type = "array"
  THEN \E i \in 1..Len(field.items.a) : VisitThrows(field.items.a[i])
  ELSE IF field.type = "primitive" THEN FALSE
  ELSE \/ field.fields.k # "obj"
       \/ \E key \in DOMAIN field.fields.f : VisitThrows(field.fields.f[key])

Settled(st, e) == [st |-> st, e |-> e]

\* a call that gives up on a validator that does not settle
InvokeGivingUp(fn, value) ==
  CASE fn.mode \in {"throw", "reject"} -> Settled("reject", "undefined")
    [] fn.mode = "never" -> Settled("ok", "undefined")
    [] OTHER -> Settled("ok", Eval(fn, value))

\* the outcome of calling one validator during the pass
Invoke(fn, value) ==
  CASE fn.mode \in {"throw", "reject"} -> Settled("reject", "undefined")
    [] fn.mode = "never" -> Settled("never", "undefined")
    [] OTHER -> Settled("ok", Eval(fn, value))

\* a validateValue that asks onSubmit first
validateValueOnSubmitFirst(value, validator) ==
  IF ~IsRule(validator) THEN Settled("ok", "undefined")
  ELSE LET c == IF HasOnChange(validator) THEN Invoke(validator.onChange, value)
                ELSE Settled("ok", "undefined")
           s == IF HasOnSubmit(validator) THEN Invoke(validator.onSubmit, value)
                ELSE Settled("ok", "undefined")
       IN IF s.st # "ok" THEN s
          ELSE IF TruthyError(s.e) THEN s
          ELSE IF c.st # "ok" THEN c
          ELSE IF TruthyError(c.e) THEN c
          ELSE Settled("ok", "undefined")

\* a validateValue that calls onChange and onSubmit together and awaits both
validateValueBoth(value, validator) ==
  IF ~IsRule(validator) THEN Settled("ok", "undefined")
  ELSE LET c == IF HasOnChange(validator) THEN Invoke(validator.onChange, value)
                ELSE Settled("ok", "undefined")
           s == IF HasOnSubmit(validator) THEN Invoke(validator.onSubmit, value)
                ELSE Settled("ok", "undefined")
       IN IF c.st # "ok" THEN c
          ELSE IF s.st # "ok" THEN s
          ELSE IF TruthyError(c.e) THEN c
          ELSE IF TruthyError(s.e) THEN s
          ELSE Settled("ok", "undefined")

validateValue(value, validator) ==
  IF ~IsRule(validator) THEN Settled("ok", "undefined")
  ELSE LET c == IF HasOnChange(validator) THEN Invoke(validator.onChange, value)
                ELSE Settled("ok", "undefined")
           s == IF HasOnSubmit(validator) THEN Invoke(validator.onSubmit, value)
                ELSE Settled("ok", "undefined")
       IN IF c.st # "ok" THEN c
          ELSE IF TruthyError(c.e) THEN c
          ELSE IF s.st # "ok" THEN s
          ELSE IF TruthyError(s.e) THEN s
          ELSE Settled("ok", "undefined")

Merged(st, n) == [st |-> st, n |-> n]

\* a join that does not wait for the children still pending
JoinSettledOnly(children, own) ==
  IF \E c \in children : c.st = "reject" THEN "reject"
  ELSE own.st

\* Promise.all over the children, then the node's own validateValue
Join(children, own) ==
  IF \E c \in children : c.st = "reject" THEN "reject"
  ELSE IF \E c \in children : c.st = "never" THEN "never"
  ELSE own.st

\* a pass that hands a field without a rule of its own the rule of its parent
RECURSIVE mergeInheritingRules(_, _)
mergeInheritingRules(field, validators) ==
  IF ~IsRule(validators) THEN Merged("ok", field)
  ELSE IF field.type = "array"
  THEN LET items == [i \in 1..Len(field.items.a) |->
                       mergeInheritingRules(field.items.a[i], validators.item)]
           own == validateValue(field.value, validators)
       IN Merged(Join({items[i] : i \in 1..Len(items)}, own),
                 [field EXCEPT !.items = Arr([i \in 1..Len(items) |-> items[i].n]),
                               !.error = own.e])
  ELSE IF field.type = "primitive"
  THEN LET own == validateValue(field.value, validators)
       IN Merged(own.st, [field EXCEPT !.error = own.e])
  ELSE IF field.fields.k # "obj" THEN Merged("reject", field)
  ELSE LET fields == [key \in DOMAIN field.fields.f |->
                        mergeInheritingRules(
                          field.fields.f[key],
                          IF validators.fields.k = "obj"
                             /\ key \in DOMAIN validators.fields.f
                          THEN validators.fields.f[key] ELSE validators)]
           own == validateValue(field.value, validators)
       IN Merged(Join({fields[key] : key \in DOMAIN fields}, own),
                 [field EXCEPT
                    !.fields = Obj([key \in DOMAIN fields |-> fields[key].n]),
                    !.error = own.e])

\* a pass that also declares every primitive field it validates settled
RECURSIVE mergeSettlingFields(_, _)
mergeSettlingFields(field, validators) ==
  IF ~IsRule(validators) THEN Merged("ok", field)
  ELSE IF field.type = "array"
  THEN LET items == [i \in 1..Len(field.items.a) |->
                       mergeSettlingFields(field.items.a[i], validators.item)]
           own == validateValue(field.value, validators)
       IN Merged(Join({items[i] : i \in 1..Len(items)}, own),
                 [field EXCEPT !.items = Arr([i \in 1..Len(items) |-> items[i].n]),
                               !.error = own.e])
  ELSE IF field.type = "primitive"
  THEN LET own == validateValue(field.value, validators)
       IN Merged(own.st, [field EXCEPT !.error = own.e, !.validating = FALSE])
  ELSE IF field.fields.k # "obj" THEN Merged("reject", field)
  ELSE LET fields == [key \in DOMAIN field.fields.f |->
                        mergeSettlingFields(
                          field.fields.f[key],
                          IF validators.fields.k = "obj"
                             /\ key \in DOMAIN validators.fields.f
                          THEN validators.fields.f[key] ELSE Undefined)]
           own == validateValue(field.value, validators)
       IN Merged(Join({fields[key] : key \in DOMAIN fields}, own),
                 [field EXCEPT
                    !.fields = Obj([key \in DOMAIN fields |-> fields[key].n]),
                    !.error = own.e])

RECURSIVE mergeInValidationResults(_, _)
mergeInValidationResults(field, validators) ==
  IF ~IsRule(validators) THEN Merged("ok", field)
  ELSE IF field.type = "array"
  THEN LET items == [i \in 1..Len(field.items.a) |->
                       mergeInValidationResults(field.items.a[i], validators.item)]
           own == validateValue(field.value, validators)
       IN Merged(Join({items[i] : i \in 1..Len(items)}, own),
                 [field EXCEPT !.items = Arr([i \in 1..Len(items) |-> items[i].n]),
                               !.error = own.e])
  ELSE IF field.type = "primitive"
  THEN LET own == validateValue(field.value, validators)
       IN Merged(own.st, [field EXCEPT !.error = own.e])
  ELSE IF field.fields.k # "obj" THEN Merged("reject", field)
  ELSE LET fields == [key \in DOMAIN field.fields.f |->
                        mergeInValidationResults(
                          field.fields.f[key],
                          IF validators.fields.k = "obj"
                             /\ key \in DOMAIN validators.fields.f
                          THEN validators.fields.f[key] ELSE Undefined)]
           own == validateValue(field.value, validators)
       IN Merged(Join({fields[key] : key \in DOMAIN fields}, own),
                 [field EXCEPT
                    !.fields = Obj([key \in DOMAIN fields |-> fields[key].n]),
                    !.error = own.e])

\* a containsError that looks at the top node only
containsErrorOwn(field) == TruthyError(field.error)

RECURSIVE containsError(_)
containsError(field) ==
  IF TruthyError(field.error) THEN TRUE
  ELSE IF field.type = "array"
  THEN \E i \in 1..Len(field.items.a) : containsError(field.items.a[i])
  ELSE IF field.type = "complex"
  THEN \E key \in DOMAIN field.fields.f : containsError(field.fields.f[key])
  ELSE FALSE

(***************************************************************************)
(* The form under test: initial value, the rule trees the hook can be      *)
(* given, and the arguments the mutators are called with.                  *)
(***************************************************************************)
ObjInput == Obj([foo |-> Prim("a")])

\* the optional branch item starts absent or present
InitValues ==
  {Obj([id |-> Prim("a"),
        list |-> Arr(<<Obj([name |-> Prim("a")]), Obj([name |-> Prim("b")])>>),
        item |-> item]) : item \in {Null, ObjInput}}

NoFields == Undefined

\* the rules of the repository's test suite, all synchronous
SyncValidation ==
  Rule(Undefined, Undefined,
       Obj([id |-> Rule(Undefined, Required("Id is required", "sync"),
                        NoFields, Undefined),
            list |-> Rule(LengthIn(3..(MaxItems + 1), "You can max have 2 list", "sync"),
                          LengthIn({1}, "One item is not allowed", "sync"),
                          NoFields,
                          Rule(Undefined,
                               KeyRequired("name", "Name is required", "sync"),
                               Obj([name |-> Rule(Undefined,
                                                  Required("Name is required", "sync"),
                                                  NoFields, Undefined)]),
                               Undefined)),
            item |-> Rule(Undefined,
                          Required("Item is required", "sync"),
                          Obj([foo |-> Rule(Required("Foo is required", "sync"),
                                            Undefined, NoFields, Undefined)]),
                          Undefined)]),
       Undefined)

\* id has an asynchronous onChange rule and a synchronous onSubmit rule; the
\* root and the optional branch have an onChange rule of their own, and the
\* onSubmit rule of item.foo returns a promise that rejects
AsyncValidation ==
  Rule(KeyRequired("id", "Form needs an id", "sync"), Undefined,
       Obj([id |-> Rule(Required("Id is required", "async"),
                        NotIn({Prim(""), Prim("b")}, "Id is taken", "sync"),
                        NoFields, Undefined),
            item |-> Rule(KeyRequired("bar", "Item needs a bar", "sync"),
                          Undefined,
                          Obj([foo |-> Rule(Required("Foo is required", "sync"),
                                            Required("Foo is unknown", "reject"),
                                            NoFields, Undefined)]),
                          Undefined)]),
       Undefined)

\* the onChange rule of id returns a promise that rejects, the onChange rule
\* of list throws
FailingValidation ==
  Rule(Undefined, Undefined,
       Obj([id |-> Rule(Required("Id is required", "reject"), Undefined,
                        NoFields, Undefined),
            list |-> Rule(LengthIn({3}, "You can max have 2 list", "throw"),
                          Undefined, NoFields, Undefined)]),
       Undefined)

\* the onChange rule of id returns a promise that never settles, the
\* onChange rule of item.foo a promise that rejects
HangingValidation ==
  Rule(Undefined, Undefined,
       Obj([id |-> Rule(Required("Id is required", "never"), Undefined,
                        NoFields, Undefined),
            item |-> Rule(Undefined, Undefined,
                          Obj([foo |-> Rule(Required("Foo is required", "reject"),
                                            Undefined, NoFields, Undefined)]),
                          Undefined)]),
       Undefined)

Validations ==
  {SyncValidation, AsyncValidation, FailingValidation, HangingValidation}

PrimInputs == {Prim(""), Prim("b")}
PushInput == Obj([name |-> Prim("c")])
OptionalPaths == {<<Key("item")>>}

\* the nodes whose touch is called: one of each type, one list item and the
\* optional branch
TouchPaths ==
  {<<>>, <<Key("id")>>, <<Key("list")>>, <<Key("list"), Idx(0)>>, <<Key("item")>>}

\* the arguments set is called with on the node h reached by chain; a
\* primitive inside a list item is only ever emptied
SetInputs(h, chain) ==
  CASE h.type = "primitive" ->
         IF h.value.k = "null" THEN {ObjInput}
         ELSE IF \E j \in 1..Len(chain) : chain[j].k = "idx" THEN {Prim("")}
         ELSE PrimInputs
    [] h.type = "complex" ->
         IF PathOf(chain) \in OptionalPaths THEN {Null, ObjInput} ELSE {}
    [] OTHER -> {}

FormState(root, submitting) == [root |-> root, submitting |-> submitting]

\* the step taken last: its name, the chain of the mutator called, its argument
\* and, for a settled run, the error the run delivers
Did(a, chain, v, index, res) ==
  [a |-> a, chain |-> chain, v |-> v, index |-> index, res |-> res]

Init ==
  /\ options \in {[validation |-> v] : v \in Validations}
  /\ optionsRef = options
  /\ \E initState \in InitValues :
       state = FormState(createFormField(initState, <<>>, Undefined), FALSE)
  /\ stateRef = state
  /\ pending = <<>>
  /\ subs = <<>>
  /\ ops = 0
  /\ escaped = {}
  /\ last = Did("init", <<>>, Undefined, 0, "")

(***************************************************************************)
(* Mutators.  A mutator is taken from the last rendered state (stateRef)   *)
(* and its updater is applied to the latest state through updateState.     *)
(***************************************************************************)
\* updateState passing the rendered state to the updater instead of the
\* state React holds: the non-functional form of setState
updateStateFromRendered(chain, op) ==
  LET r == Apply(stateRef.root, optionsRef.validation, <<>>, chain, op) IN
  /\ Live(state.root, chain)
  /\ IF r.threw # ""
     THEN /\ escaped' = escaped \cup {r.threw}
          /\ UNCHANGED <<state, pending>>
     ELSE /\ Len(pending) + Len(r.started) <= MaxPending
          /\ state' = [state EXCEPT !.root = r.n]
          /\ pending' = pending \o r.started
          /\ UNCHANGED escaped

updateState(chain, op) ==
  LET r == Apply(state.root, optionsRef.validation, <<>>, chain, op) IN
  /\ Live(state.root, chain)
  /\ IF r.threw # ""
     THEN /\ escaped' = escaped \cup {r.threw}
          /\ UNCHANGED <<state, pending>>
     ELSE /\ Len(pending) + Len(r.started) <= MaxPending
          /\ state' = [state EXCEPT !.root = r.n]
          /\ pending' = pending \o r.started
          /\ UNCHANGED escaped

UserOp ==
  /\ ops < MaxOps
  /\ ops' = ops + 1
  /\ UNCHANGED <<stateRef, options, optionsRef, subs>>

Set(chain, v) ==
  /\ UserOp
  /\ last' = Did("set", chain, v, 0, "")
  /\ updateState(chain, [op |-> "set", ck |-> NodeAt(stateRef.root, chain).type,
                         v |-> v])

Touch(chain) ==
  /\ UserOp
  /\ last' = Did("touch", chain, Undefined, 0, "")
  /\ updateState(chain, [op |-> "touch", ck |-> NodeAt(stateRef.root, chain).type])

Push(chain, v) ==
  /\ UserOp
  /\ last' = Did("push", chain, v, 0, "")
  /\ NodeAt(stateRef.root, chain).type = "array"
  /\ Live(state.root, chain)
  /\ LET cur == NodeAt(state.root, chain) IN
       IF cur.items.k = "arr" THEN Len(cur.items.a) < MaxItems ELSE TRUE
  /\ updateState(chain, [op |-> "push", v |-> v])

Remove(chain, index) ==
  /\ UserOp
  /\ last' = Did("remove", chain, Undefined, index, "")
  /\ NodeAt(stateRef.root, chain).type = "array"
  /\ updateState(chain, [op |-> "remove", index |-> index])

\* a pending validator run settles: its then or catch handler calls the setter
Settle(i) ==
  LET run == pending[i]
      rest == [j \in 1..(Len(pending) - 1) |->
                 IF j < i THEN pending[j] ELSE pending[j + 1]]
      r == Apply(state.root, optionsRef.validation, <<>>, run.chain,
                 [op |-> "settled", newValue |-> run.newValue, res |-> run.res])
  IN /\ run.settle # "never"
     /\ IF ~Live(state.root, run.chain)
        THEN /\ escaped' = escaped \cup {"TypeError"}
             /\ pending' = rest
             /\ UNCHANGED state
        ELSE IF r.threw # ""
        THEN /\ escaped' = escaped \cup {r.threw}
             /\ pending' = rest
             /\ UNCHANGED state
        ELSE /\ Len(rest) + Len(r.started) <= MaxPending
             /\ state' = [state EXCEPT !.root = r.n]
             /\ pending' = rest \o r.started
             /\ UNCHANGED escaped
     /\ last' = Did("settle", run.chain, run.newValue, 0, run.res)
     /\ UNCHANGED <<stateRef, options, optionsRef, subs, ops>>

\* the hook re-renders and its effect publishes the state to stateRef
Render ==
  /\ stateRef # state
  /\ stateRef' = state
  /\ last' = Did("render", <<>>, Undefined, 0, "")
  /\ UNCHANGED <<state, options, optionsRef, pending, subs, ops, escaped>>

\* the rules a later render of the owner hands to the hook
NewProps(o) ==
  [validation |-> IF o.validation = SyncValidation THEN AsyncValidation
                                                   ELSE SyncValidation]

\* the owner re-renders the hook with other rules: the effect publishes the
\* state and the new options; the closures made by the first render keep the
\* options of that render
Rerender ==
  /\ ops < MaxOps
  /\ ops' = ops + 1
  /\ stateRef' = state
  /\ optionsRef' = NewProps(optionsRef)
  /\ last' = Did("rerender", <<>>, Undefined, 0, "")
  /\ UNCHANGED <<state, options, pending, subs, escaped>>

(***************************************************************************)
(* The submit cycle.  Each call of submit() is a process: it runs up to    *)
(* its first await (the validation pass), then up to the await of the      *)
(* external callback, then to its end.                                     *)
(***************************************************************************)
\* what the external callback does: return a promise that resolves or rejects
\* (a promise not settled yet is a cycle still at "calling"), or throw
Callbacks == {"resolve", "reject", "throw"}

Sub(pc, outcome, cur, validated, called, arg, cb) ==
  [pc |-> pc, outcome |-> outcome, cur |-> cur, validated |-> validated,
   called |-> called, arg |-> arg, cb |-> cb,
   \* the call was made while an earlier cycle was between its first state
   \* change and its cleanup
   overlap |-> \E j \in 1..Len(subs) : subs[j].pc # "done"]

\* replaceState({...currentState, ...mapFieldsDeep(currentState, disable, touch),
\*               submitting: true, disabled: true})
TouchAndDisable(currentState) ==
  FormState([mapFieldsDeep(currentState.root, "disable") EXCEPT !.disabled = TRUE],
            TRUE)

Untouch(prev) == FormState(mapFieldsDeep(prev.root, "untouch"), prev.submitting)

Cleanup(prev) ==
  FormState([mapFieldsDeep(prev.root, "enable") EXCEPT !.disabled = FALSE], FALSE)

\* the finally block, run on the state st left by the statements before it
Finally(st) ==
  IF VisitThrows(st.root)
  THEN /\ state' = st
       /\ escaped' = escaped \cup {"TypeError"}
  ELSE /\ state' = Cleanup(st)
       /\ UNCHANGED escaped

Submit ==
  /\ ops < MaxOps
  /\ ops' = ops + 1
  /\ UNCHANGED <<stateRef, options, optionsRef>>
  /\ last' = Did("submit", <<>>, Undefined, 0, "")
  /\ Len(subs) < MaxSubmits
  /\ IF stateRef.submitting
     THEN /\ subs' = Append(subs, Sub("done", "guarded", Undefined, Undefined,
                                      0, Undefined, ""))
          /\ UNCHANGED <<state, escaped>>
     ELSE IF VisitThrows(stateRef.root)
     THEN /\ subs' = Append(subs, Sub("done", "TypeError", stateRef, Undefined,
                                      0, Undefined, ""))
          /\ Finally(state)
     ELSE /\ state' = TouchAndDisable(stateRef)
          /\ subs' = Append(subs, Sub("validating", "", TouchAndDisable(stateRef),
                                      Undefined, 0, Undefined, ""))
          /\ UNCHANGED escaped
  /\ UNCHANGED pending

\* every validator of the pass has settled
SubmitValidated(i) ==
  LET sub == subs[i]
      m == mergeInValidationResults(sub.cur.root, options.validation)
      currentState == FormState(m.n, sub.cur.submitting)
  IN /\ sub.pc = "validating"
     /\ m.st # "never"
     /\ IF m.st = "reject"
        THEN /\ Finally(state)
             /\ subs' = [subs EXCEPT ![i].pc = "done",
                                     ![i].outcome = "validator failed"]
        ELSE IF containsError(m.n)
        THEN /\ Finally(currentState)
             /\ subs' = [subs EXCEPT ![i].pc = "done", ![i].outcome = "invalid",
                                     ![i].validated = currentState]
        ELSE \E cb \in Callbacks :
               IF cb = "throw"
               THEN /\ Finally(currentState)
                    /\ subs' = [subs EXCEPT ![i].pc = "done",
                                  ![i].outcome = "callback failed",
                                  ![i].validated = currentState,
                                  ![i].called = 1, ![i].cb = cb,
                                  ![i].arg = currentState.root.value]
               ELSE /\ state' = currentState
                    /\ subs' = [subs EXCEPT ![i].pc = "calling",
                                  ![i].validated = currentState,
                                  ![i].called = 1, ![i].cb = cb,
                                  ![i].arg = currentState.root.value]
                    /\ UNCHANGED escaped
     /\ last' = Did("validated", <<>>, Undefined, i, "")
     /\ UNCHANGED <<stateRef, options, optionsRef, pending, ops>>

\* the promise returned by the external callback settles
SubmitReturned(i) ==
  LET sub == subs[i] IN
  /\ sub.pc = "calling"
  /\ sub.cb \in {"resolve", "reject"}
  /\ IF sub.cb = "resolve"
     THEN /\ Finally(IF VisitThrows(state.root) THEN state ELSE Untouch(state))
          /\ subs' = [subs EXCEPT ![i].pc = "done", ![i].outcome = "ok"]
     ELSE /\ Finally(state)
          /\ subs' = [subs EXCEPT ![i].pc = "done", ![i].outcome = "callback failed"]
  /\ last' = Did("returned", <<>>, Undefined, i, "")
  /\ UNCHANGED <<stateRef, options, optionsRef, pending, ops>>

Next ==
  \/ \E chain \in Chains(stateRef.root, <<>>) :
       \/ \E v \in SetInputs(NodeAt(stateRef.root, chain), chain) : Set(chain, v)
       \/ /\ PathOf(chain) \in TouchPaths
          /\ Touch(chain)
       \/ Push(chain, PushInput)
       \/ \E index \in 0..(MaxItems - 1) :
            /\ NodeAt(stateRef.root, chain).type = "array"
            /\ index < Len(NodeAt(stateRef.root, chain).items.a)
            /\ Remove(chain, index)
  \/ \E i \in 1..Len(pending) : Settle(i)
  \/ Render
  \/ Rerender
  \/ Submit
  \/ \E i \in 1..Len(subs) : SubmitValidated(i)
  \/ \E i \in 1..Len(subs) : SubmitReturned(i)

Spec == Init /\ [][Next]_vars

TypeOK == ops \in 0..MaxOps

(***************************************************************************)
(* Vocabulary of the properties                                            *)
(***************************************************************************)
\* every node of a tree: the node, and the nodes under its fields and items
RECURSIVE Nodes(_)
Nodes(n) ==
  {n}
  \cup (IF n.fields.k = "obj"
        THEN UNION {Nodes(n.fields.f[key]) : key \in DOMAIN n.fields.f}
        ELSE {})
  \cup (IF n.items.k = "arr"
        THEN UNION {Nodes(n.items.a[i]) : i \in 1..Len(n.items.a)}
        ELSE {})

Descendants(n) == Nodes(n) \ {n}

\* the rule at a path of the rule tree
RECURSIVE RuleAt(_, _)
RuleAt(r, path) ==
  IF path = <<>> THEN r
  ELSE IF Head(path).k = "key" THEN RuleAt(FieldRule(r, Head(path).s), Tail(path))
  ELSE RuleAt(ItemRule(r), Tail(path))

\* a plain value holds no Field Node
RECURSIVE Plain(_)
Plain(v) ==
  CASE v.k = "node" -> FALSE
    [] v.k = "obj" -> \A key \in DOMAIN v.f : Plain(v.f[key])
    [] v.k = "arr" -> \A i \in 1..Len(v.a) : Plain(v.a[i])
    [] OTHER -> TRUE

\* the submit calls that got past the guard and whose validation pass ended
\* with a tree
Passes == {i \in 1..Len(subs) : subs[i].validated # Undefined}

(***************************************************************************)
(* C1: a submit() whose validation pass has ended has invoked the external *)
(* callback exactly once when no node of the validated tree, root or       *)
(* descendant, carries a truthy error, and not at all when some node does. *)
(***************************************************************************)
C1_SubmitGating ==
  \A i \in Passes :
    subs[i].called =
      IF \E n \in Nodes(subs[i].validated.root) : TruthyError(n.error)
      THEN 0 ELSE 1

\* a pass that left an error on a descendant only, and the callback not called
C1_Witness ==
  \E i \in Passes :
    /\ ~subs[i].overlap
    /\ subs[i].called = 0
    /\ ~TruthyError(subs[i].validated.root.error)
    /\ \E n \in Descendants(subs[i].validated.root) : TruthyError(n.error)

\* a pass that left no error anywhere, and the callback called once
C1_WitnessCalled ==
  \E i \in Passes :
    /\ subs[i].called = 1
    /\ \A n \in Nodes(subs[i].validated.root) : ~TruthyError(n.error)

(***************************************************************************)
(* C2: a submit() called while an earlier cycle is between its first state *)
(* change and its cleanup returns at the guard: it runs no validation and  *)
(* calls no callback.                                                      *)
(***************************************************************************)
C2_ReentrancyGuard ==
  \A i \in 1..Len(subs) : subs[i].overlap => subs[i].outcome = "guarded"

\* overlapping calls never produce more than one callback invocation
C2_AtMostOneCallback ==
  \A i, j \in 1..Len(subs) :
    (i < j /\ subs[j].overlap /\ subs[i].called = 1) => subs[j].called = 0

(***************************************************************************)
(* C3: when a validator run settles and the value it was started with is   *)
(* no longer the value of its field (a later set wrote another one), the   *)
(* field keeps its value, error and validating; a run that settles for the *)
(* value the field still holds is committed: error becomes the run's       *)
(* result and validating becomes false.                                    *)
(***************************************************************************)
C3_StaleRunDiscarded ==
  [][(last'.a = "settle" /\ Live(state.root, last'.chain)) =>
       LET before == NodeAt(state.root, last'.chain)
           after == NodeAt(state'.root, last'.chain)
       IN /\ after.value = before.value
          /\ IF before.value # last'.v
             THEN /\ after.error = before.error
                  /\ after.validating = before.validating
             ELSE /\ after.error = last'.res
                  /\ after.validating = FALSE]_vars

\* the run of an overwritten value has just settled; the field still waits
\* for the run of the value it holds
C3_Witness ==
  /\ last.a = "settle"
  /\ Live(state.root, last.chain)
  /\ NodeAt(state.root, last.chain).value # last.v
  /\ NodeAt(state.root, last.chain).validating
  /\ \E i \in 1..Len(pending) :
       /\ pending[i].chain = last.chain
       /\ pending[i].newValue = NodeAt(state.root, last.chain).value

(***************************************************************************)
(* C4: in the tree a validation pass returns, a node whose rule has both   *)
(* onChange and onSubmit carries the onChange error when onChange yields a *)
(* truthy error for the node's value, otherwise the onSubmit error when    *)
(* that is truthy, otherwise no error.                                     *)
(***************************************************************************)
C4_OnChangeBeforeOnSubmit ==
  \A i \in Passes :
    \A n \in Nodes(subs[i].validated.root) :
      LET r == RuleAt(options.validation, n.path) IN
      (HasOnChange(r) /\ HasOnSubmit(r)) =>
        LET c == Eval(r.onChange, n.value)
            s == Eval(r.onSubmit, n.value)
        IN n.error = IF TruthyError(c) THEN c
                     ELSE IF TruthyError(s) THEN s
                     ELSE "undefined"

\* both validators object to the value, and the node carries the onChange error
C4_Witness ==
  \E i \in Passes :
    \E n \in Nodes(subs[i].validated.root) :
      LET r == RuleAt(options.validation, n.path) IN
      /\ HasOnChange(r) /\ HasOnSubmit(r)
      /\ TruthyError(Eval(r.onChange, n.value))
      /\ TruthyError(Eval(r.onSubmit, n.value))
      /\ Eval(r.onChange, n.value) # Eval(r.onSubmit, n.value)
      /\ n.error = Eval(r.onChange, n.value)

(***************************************************************************)
(* C5: a remove(k) that returns, called on an array field with n items     *)
(* and 0 <= k < n, leaves n-1 items; the item at index i has a path ending *)
(* in i and the value formerly at index i when i < k, at i+1 when i >= k.  *)
(***************************************************************************)
C5_RemoveShifts ==
  [][(last'.a = "remove" /\ state' # state) =>
       LET before == NodeAt(state.root, last'.chain)
           after == NodeAt(state'.root, last'.chain)
           k == last'.index
           n == Len(before.items.a)
       IN k < n =>
            /\ Len(after.items.a) = n - 1
            /\ \A i \in 0..(n - 2) :
                 /\ after.items.a[i + 1].path = Append(after.path, Idx(i))
                 /\ after.items.a[i + 1].value =
                      before.items.a[IF i < k THEN i + 1 ELSE i + 2].value]_vars

\* remove(0) has just moved the second item of the initial list to index 0
C5_Witness ==
  /\ last.a = "remove"
  /\ last.index = 0
  /\ LET list == NodeAt(state.root, last.chain) IN
       /\ Len(list.items.a) = 1
       /\ list.items.a[1].value = Obj([name |-> Prim("b")])
       /\ list.items.a[1].path = <<Key("list"), Idx(0)>>

(***************************************************************************)
(* C6: the step that ends a submit cycle that got past the guard leaves    *)
(* submitting = false and disabled = false on every node of the tree.      *)
(***************************************************************************)
C6_CleanupRestores ==
  [][\A i \in 1..Len(subs') :
       (/\ subs'[i].pc = "done"
        /\ subs'[i].outcome # "guarded"
        /\ IF i > Len(subs) THEN TRUE ELSE subs[i].pc # "done")
       => /\ ~state'.submitting
          /\ \A n \in Nodes(state'.root) : ~n.disabled]_vars

(***************************************************************************)
(* C7: the first state change of a submit cycle sets submitting = true and *)
(* touched = true and disabled = true on every node of the tree, root and  *)
(* descendants.                                                            *)
(***************************************************************************)
C7_TouchAndDisableAll ==
  \A i \in 1..Len(subs) :
    subs[i].outcome \notin {"guarded", "TypeError"} =>
      /\ subs[i].cur.submitting
      /\ \A n \in Nodes(subs[i].cur.root) : n.touched /\ n.disabled

(***************************************************************************)
(* C8: the value handed to the external callback is a plain value tree: it *)
(* holds no Field Node.                                                    *)
(***************************************************************************)
C8_CallbackGetsPlainValue ==
  \A i \in 1..Len(subs) : subs[i].called = 1 => Plain(subs[i].arg)

(***************************************************************************)
(* C9: in every reachable state the value of every complex node is the     *)
(* record of its fields' values and the value of every array node is the   *)
(* sequence of its items' values.                                          *)
(***************************************************************************)
C9_ValueEqualsChildren ==
  \A n \in Nodes(state.root) :
    /\ (n.type = "complex" /\ n.fields.k = "obj") =>
         n.value = Obj([key \in DOMAIN n.fields.f |-> n.fields.f[key].value])
    /\ (n.type = "array" /\ n.items.k = "arr") =>
         n.value = Arr([i \in 1..Len(n.items.a) |-> n.items.a[i].value])

(***************************************************************************)
(* C10: a validator that throws or rejects never makes a mutator throw and *)
(* never makes submit() reject.                                            *)
(***************************************************************************)
C10_FailureNeverEscapes ==
  /\ "validator" \notin escaped
  /\ \A i \in 1..Len(subs) : subs[i].outcome # "validator failed"

(***************************************************************************)
(* C11: when the external callback throws or its promise rejects, the      *)
(* step that ends the cycle makes submit() reject with that failure, the   *)
(* callback has been called once only, and the cleanup leaves submitting = *)
(* false and disabled = false on every node.                               *)
(***************************************************************************)
C11_CallbackFailure ==
  [][\A i \in 1..Len(subs') :
       (/\ subs'[i].pc = "done"
        /\ subs'[i].cb \in {"throw", "reject"}
        /\ IF i > Len(subs) THEN TRUE ELSE subs[i].pc # "done")
       => /\ subs'[i].outcome = "callback failed"
          /\ subs'[i].called = 1
          /\ ~state'.submitting
          /\ \A n \in Nodes(state'.root) : ~n.disabled]_vars

\* the part of C11 about the caller: the failure reaches it, the callback was
\* called once, and no node got an error from it
C11_FailureReachesCaller ==
  \A i \in 1..Len(subs) :
    (subs[i].pc = "done" /\ subs[i].cb \in {"throw", "reject"}) =>
      /\ subs[i].outcome = "callback failed"
      /\ subs[i].called = 1
      /\ \A n \in Nodes(subs[i].validated.root) : ~TruthyError(n.error)

(***************************************************************************)
(* C12: in the tree a validation pass returns, every node that has a rule  *)
(* carries the error its rule yields for the node's own plain value (the   *)
(* value assembled from the node's children), whatever the errors of the   *)
(* nodes around it.                                                        *)
(***************************************************************************)
\* the plain value at a node's position
RECURSIVE PlainOf(_)
PlainOf(n) ==
  IF n.type = "array" /\ n.items.k = "arr"
  THEN Arr([i \in 1..Len(n.items.a) |-> PlainOf(n.items.a[i])])
  ELSE IF n.type = "complex" /\ n.fields.k = "obj"
  THEN Obj([key \in DOMAIN n.fields.f |-> PlainOf(n.fields.f[key])])
  ELSE n.value

\* the error a rule yields for a value: onChange first, then onSubmit
ErrorFor(r, v) ==
  LET c == IF HasOnChange(r) THEN Eval(r.onChange, v) ELSE "undefined"
      s == IF HasOnSubmit(r) THEN Eval(r.onSubmit, v) ELSE "undefined"
  IN IF TruthyError(c) THEN c ELSE IF TruthyError(s) THEN s ELSE "undefined"

C12_EachNodeItsOwnValue ==
  \A i \in Passes :
    \A n \in Nodes(subs[i].validated.root) :
      LET r == RuleAt(options.validation, n.path) IN
      IsRule(r) => n.error = ErrorFor(r, PlainOf(n))

(***************************************************************************)
(* C13: set(obj), obj a plain object, called on a rendered primitive field *)
(* whose node in the latest state is still primitive and holds null or     *)
(* undefined, puts a complex field at the same path, whose value is obj    *)
(* and whose fields are exactly obj's keys, fields[k].value = obj[k].      *)
(***************************************************************************)
C13_SetObjectOnNull ==
  [][(/\ last'.a = "set"
      /\ last'.v.k = "obj"
      /\ NodeAt(stateRef.root, last'.chain).type = "primitive"
      /\ NodeAt(state.root, last'.chain).type = "primitive"
      /\ NodeAt(state.root, last'.chain).value.k \in {"null", "undefined"}) =>
       LET before == NodeAt(state.root, last'.chain)
           after == NodeAt(state'.root, last'.chain)
           obj == last'.v
       IN /\ after.type = "complex"
          /\ after.path = before.path
          /\ after.value = obj
          /\ after.fields.k = "obj"
          /\ DOMAIN after.fields.f = DOMAIN obj.f
          /\ \A key \in DOMAIN obj.f : after.fields.f[key].value = obj.f[key]]_vars

\* the first call made on the form was set({foo: "a"}) on the null item
C13_Witness ==
  /\ ops = 1
  /\ last.a = "set"
  /\ last.v = ObjInput
  /\ NodeAt(stateRef.root, last.chain).type = "primitive"
  /\ NodeAt(stateRef.root, last.chain).value = Null
  /\ NodeAt(state.root, last.chain).type = "complex"
  /\ NodeAt(state.root, last.chain).fields.f["foo"].value = Prim("a")

(***************************************************************************)
(* C14: a push(v) that returns, called on an array field with n items,     *)
(* leaves n+1 items; the first n are the nodes they were (same value,      *)
(* touched, error, validating, path, and the same below them) and the last *)
(* is a newly built node with path ending in n whose value, and whose      *)
(* children's values, are those of v.                                      *)
(***************************************************************************)
C14_PushAppends ==
  [][(last'.a = "push" /\ state' # state) =>
       LET before == NodeAt(state.root, last'.chain)
           after == NodeAt(state'.root, last'.chain)
           n == Len(before.items.a)
           new == after.items.a[n + 1]
       IN /\ Len(after.items.a) = n + 1
          /\ \A i \in 1..n : after.items.a[i] = before.items.a[i]
          /\ new = createFormFieldInArray(last'.v, n, after.path)
          /\ new.path = Append(after.path, Idx(n))
          /\ new.value = last'.v
          /\ PlainOf(new) = last'.v]_vars

\* a push made after the first item's name was emptied: the first item keeps
\* the empty name, the pushed item is last
C14_Witness ==
  /\ last.a = "push"
  /\ LET list == NodeAt(state.root, last.chain) IN
       /\ Len(list.items.a) = 3
       /\ list.items.a[1].fields.f["name"].value = Prim("")
       /\ list.items.a[3].value = PushInput
       /\ list.items.a[3].path = <<Key("list"), Idx(2)>>

(***************************************************************************)
(* C15: a push or remove that returns, on an array field whose rule has a  *)
(* synchronous onChange validator, stores as the array's error what that   *)
(* validator yields for the array's plain value after the mutation.        *)
(***************************************************************************)
C15_ArrayRuleSeesNewValue ==
  [][(last'.a \in {"push", "remove"} /\ state' # state) =>
       LET after == NodeAt(state'.root, last'.chain)
           r == RuleAt(optionsRef.validation, after.path)
       IN (HasOnChange(r) /\ r.onChange.mode = "sync") =>
            after.error = Eval(r.onChange, PlainOf(after))]_vars

(***************************************************************************)
(* C16: a validation pass of submit gives its tree the errors of the rules *)
(* handed to the most recent render (optionsRef), and fails exactly when   *)
(* one of those rules fails; a mutator's validation uses the same rules.   *)
(***************************************************************************)
C16_LatestRulesUsed ==
  [][last'.a = "validated" =>
       LET i == last'.index
           m == mergeInValidationResults(subs[i].cur.root, optionsRef.validation)
       IN IF m.st = "reject"
          THEN subs'[i].outcome = "validator failed"
          ELSE /\ subs'[i].validated # Undefined
               /\ subs'[i].validated.root = m.n]_vars

(***************************************************************************)
(* C17: a set made right after remove(k), through a mutator handed out     *)
(* before the removal for a field of the element then at index j > k,      *)
(* writes to that field of the element at index j-1, where the element     *)
(* now lives.                                                              *)
(***************************************************************************)
C17_HeldMutatorFollowsItem ==
  [][(/\ last.a = "remove"
      /\ last'.a = "set"
      /\ escaped' = escaped
      /\ Len(last'.chain) >= 2
      /\ last'.chain[1 + Len(last.chain)].k = "idx"
      /\ SubSeq(last'.chain, 1, Len(last.chain)) = last.chain
      /\ last'.chain[1 + Len(last.chain)].i > last.index)
     => LET shifted == [last'.chain EXCEPT ![1 + Len(last.chain)].i = @ - 1]
        IN NodeAt(state'.root, shifted).value = last'.v]_vars

(***************************************************************************)
(* C18: the tree built from a value tree V, before any mutation, gives V   *)
(* back: the root's value is V, every child at key k or index i is built   *)
(* from V[k] or V[i] and holds it, and the plain value assembled from the  *)
(* leaves is V.  Checked for the tree the form starts with and for every   *)
(* value tree of BuildInputs.                                              *)
(***************************************************************************)
Leaves == {Prim(""), Prim("b"), Null}

Flat ==
  Leaves \cup {Obj([foo |-> l]) : l \in Leaves}
         \cup {Arr(<<>>)} \cup {Arr(<<l>>) : l \in Leaves}
         \cup {Arr(<<l, m>>) : l \in Leaves, m \in Leaves}

BuildInputs ==
  Flat \cup {Obj([id |-> a, list |-> b]) : a \in Flat, b \in Flat}
       \cup {Arr(<<a>>) : a \in Flat}
       \cup {Arr(<<a, b>>) : a \in Flat, b \in Flat}

RECURSIVE Holds(_, _)
Holds(n, V) ==
  /\ n.value = V
  /\ IF V.k = "arr"
     THEN /\ n.type = "array"
          /\ Len(n.items.a) = Len(V.a)
          /\ \A i \in 1..Len(V.a) : Holds(n.items.a[i], V.a[i])
     ELSE IF V.k = "obj"
     THEN /\ n.type = "complex"
          /\ DOMAIN n.fields.f = DOMAIN V.f
          /\ \A key \in DOMAIN V.f : Holds(n.fields.f[key], V.f[key])
     ELSE n.type = "primitive"

C19_UntouchedAfterSuccess ==
  (last.a = "returned" /\ subs[last.index].outcome = "ok")
    => \A n \in Nodes(state.root) : ~n.touched

(***************************************************************************)
(* C20: the validation pass of a submit cycle hands every validator the    *)
(* plain value at its node's position: each node of the tree under         *)
(* validation whose rule has an onChange or onSubmit function holds a      *)
(* value with no Field Node in it, and so does the value every pending     *)
(* onChange run was started with.                                          *)
(***************************************************************************)
C20_ValidatorsGetPlainValues ==
  /\ \A j \in 1..Len(pending) : Plain(pending[j].newValue)
  /\ \A i \in 1..Len(subs) :
       subs[i].pc = "validating" =>
         \A n \in Nodes(subs[i].cur.root) :
           LET r == RuleAt(options.validation, n.path)
           IN (HasOnChange(r) \/ HasOnSubmit(r)) => Plain(n.value)

(***************************************************************************)
(* C21: a submit() called on a form one of whose complex fields was set to *)
(* null runs the normal cycle: it does not end in a TypeError, and no      *)
(* TypeError escapes from a state update of the cycle.                     *)
(***************************************************************************)
C21_SubmitAfterSetNull ==
  \A i \in 1..Len(subs) :
    (subs[i].cur # Undefined /\ VisitThrows(subs[i].cur.root))
      => subs[i].outcome # "TypeError" /\ "TypeError" \notin escaped

C22_WitnessPush ==
  /\ ops = 1
  /\ last.a = "push"
  /\ escaped = {}
  /\ ~NodeAt(stateRef.root, last.chain).touched
  /\ NodeAt(state.root, last.chain).touched

(***************************************************************************)
(* C23: the steps a submit cycle takes after a suspension (committing the  *)
(* validated tree, the reset and the cleanup) keep the values of the       *)
(* latest state: what a set, push or remove committed while the cycle was  *)
(* suspended is still in the tree afterwards.                              *)
(***************************************************************************)
C23_NoLostUpdate ==
  [][last'.a \in {"validated", "returned"}
       => PlainOf(state'.root) = PlainOf(state.root)]_vars

(***************************************************************************)
(* C24: a set(v) on a node whose rule has an onChange function leaves the  *)
(* node, in the state update that stores v, with the function's result    *)
(* for v as error and validating = FALSE when the function is synchronous, *)
(* and with validating = TRUE and a run started for v when it returns a    *)
(* promise; this for every set, the one that turns a primitive field into  *)
(* a complex field included.                                               *)
(***************************************************************************)
C24_SetRunsOnChange ==
  [][last'.a = "set" =>
       LET r == RuleAt(optionsRef.validation, PathOf(last'.chain))
           after == NodeAt(state'.root, last'.chain)
       IN IF ~HasOnChange(r) THEN TRUE
          ELSE IF r.onChange.mode = "sync"
          THEN /\ after.error = Eval(r.onChange, last'.v)
               /\ ~after.validating
          ELSE IF r.onChange.mode = "async"
          THEN /\ after.validating
               /\ Len(pending') = Len(pending) + 1
               /\ pending'[Len(pending')].chain = last'.chain
               /\ pending'[Len(pending')].newValue = last'.v
          ELSE TRUE]_vars

RECURSIVE WithoutErrors(_)
WithoutErrors(n) ==
  [n EXCEPT
     !.error = "undefined",
     !.fields = IF n.fields.k = "obj"
                THEN Obj([key \in DOMAIN n.fields.f |-> WithoutErrors(n.fields.f[key])])
                ELSE @,
     !.items = IF n.items.k = "arr"
               THEN Arr([i \in 1..Len(n.items.a) |-> WithoutErrors(n.items.a[i])])
               ELSE @]

C26_OnlyErrorsDiffer ==
  \A i \in Passes :
    WithoutErrors(subs[i].validated.root) = WithoutErrors(subs[i].cur.root)

\* a pass that wrote an error on id while id's own onChange run was pending
C26_Witness ==
  \E i \in Passes :
    /\ subs[i].cur.root.fields.f["id"].validating
    /\ subs[i].validated.root.fields.f["id"].validating
    /\ ~TruthyError(subs[i].cur.root.fields.f["id"].error)
    /\ TruthyError(subs[i].validated.root.fields.f["id"].error)

(***************************************************************************)
(* C27: a submit cycle that has committed a validated tree, or has decided *)
(* on the callback (called it, or skipped it for an error), started no     *)
(* validator that is still pending, and the tree it committed is fully     *)
(* validated: every node with a rule carries what its validators yield     *)
(* for the value the node holds.                                           *)
(***************************************************************************)
\* the validators a pass starts when it reaches a node with rule r
FirstValidator(r) ==
  IF HasOnChange(r) THEN r.onChange
  ELSE IF HasOnSubmit(r) THEN r.onSubmit ELSE Undefined

\* the pass of cycle i has started a validator that never settles
Unsettled(i) ==
  \E n \in Nodes(subs[i].cur.root) :
    LET fn == FirstValidator(RuleAt(options.validation, n.path))
    IN n.type = "primitive" /\ fn.k = "fn" /\ fn.mode = "never"

Decided(i) ==
  \/ subs[i].validated # Undefined
  \/ subs[i].called = 1
  \/ subs[i].outcome \in {"invalid", "ok", "callback failed"}

C27_CommitAfterAllSettled ==
  \A i \in 1..Len(subs) :
    Decided(i) =>
      /\ ~Unsettled(i)
      /\ subs[i].validated # Undefined
      /\ \A n \in Nodes(subs[i].validated.root) :
           LET r == RuleAt(options.validation, n.path)
           IN IsRule(r) => n.error = validateValue(n.value, r).e

\* a committed pass with the result of id's asynchronous onChange rule in it
C27_Witness ==
  \E i \in Passes :
    /\ options.validation = AsyncValidation
    /\ subs[i].validated.root.fields.f["id"].value = Prim("")
    /\ subs[i].validated.root.fields.f["id"].error = "Id is required"
    /\ subs[i].outcome = "invalid"

(***************************************************************************)
(* C28: in a validation pass the onSubmit function of a node is called     *)
(* only once its onChange function has settled without a truthy error.     *)
(* So a pass fails only for a function that was due to be called (an       *)
(* onChange function, or an onSubmit function whose onChange is absent or  *)
(* gave no error), and a node whose onChange gave an error carries that    *)
(* error whatever its onSubmit function would have done.                   *)
(***************************************************************************)
Fails(fn) == fn.k = "fn" /\ fn.mode \in {"reject", "throw"}

\* onChange settles for value v without a truthy error
PassesOnChange(r, v) ==
  IF ~HasOnChange(r) THEN TRUE
  ELSE /\ r.onChange.mode \in {"sync", "async"}
       /\ ~TruthyError(Eval(r.onChange, v))

\* a function of the rule at n is called by the pass and fails
DueAndFails(n) ==
  LET r == RuleAt(options.validation, n.path)
  IN IF ~IsRule(r) THEN FALSE
     ELSE \/ Fails(r.onChange)
          \/ Fails(r.onSubmit) /\ PassesOnChange(r, n.value)

C28_OnSubmitAfterOnChange ==
  \A i \in 1..Len(subs) :
    /\ subs[i].outcome = "validator failed"
         => \E n \in Nodes(subs[i].cur.root) : DueAndFails(n)
    /\ i \in Passes =>
         \A n \in Nodes(subs[i].validated.root) :
           LET r == RuleAt(options.validation, n.path)
           IN (HasOnChange(r) /\ HasOnSubmit(r) /\ ~PassesOnChange(r, n.value))
                => n.error = Eval(r.onChange, n.value)

\* a pass that ended although the onSubmit function of item.foo rejects
\* whenever it is called: foo's onChange gave the error and onSubmit was
\* skipped
C28_Witness ==
  \E i \in Passes :
    LET item == subs[i].validated.root.fields.f["item"]
        r == RuleAt(options.validation, <<Key("item"), Key("foo")>>)
    IN /\ HasOnChange(r)
       /\ Fails(r.onSubmit)
       /\ item.fields.k = "obj"
       /\ item.fields.f["foo"].value = Prim("")
       /\ item.fields.f["foo"].error = "Foo is required"
       /\ subs[i].outcome = "invalid"

(***************************************************************************)
(* C29: submitting is TRUE only while a submit cycle is active, i.e. some  *)
(* submit() call has passed the guard and has not run its cleanup yet.     *)
(***************************************************************************)
Active(i) == subs[i].pc \in {"validating", "calling"}

C29_SubmittingOnlyWhileActive ==
  state.submitting => \E i \in 1..Len(subs) : Active(i)

(***************************************************************************)
(* C30: a submit cycle whose validation pass has called a validator that   *)
(* never settles stays in that pass: it commits no tree, never calls the   *)
(* callback, never runs its cleanup, and, when no other cycle has passed   *)
(* the guard, submitting stays TRUE.                                       *)
(***************************************************************************)
Started(i) == subs[i].cur # Undefined /\ subs[i].outcome # "TypeError"

Blocked(i) ==
  /\ subs[i].pc = "validating"
  /\ subs[i].validated = Undefined
  /\ subs[i].called = 0
  /\ (\A j \in 1..Len(subs) : j # i => ~Started(j)) => state.submitting

C30_WitnessAborted ==
  \E i \in 1..Len(subs) :
    /\ Started(i) /\ Unsettled(i)
    /\ subs[i].outcome = "validator failed"
    /\ ~state.submitting

(***************************************************************************)
(* C31: a set leaves every node that is neither its target, nor under the  *)
(* target, nor above it, exactly as it was: same value, touched, error,    *)
(* validating, disabled and path, and the same below it.                   *)
(***************************************************************************)
IsPrefix(p, q) == Len(p) <= Len(q) /\ SubSeq(q, 1, Len(p)) = p

\* positions p and q lie on one branch of the tree
OnOneBranch(p, q) == IsPrefix(p, q) \/ IsPrefix(q, p)

C31_SetFrame ==
  [][last'.a = "set" =>
       \A c \in Chains(state.root, <<>>) :
         ~OnOneBranch(PathOf(c), PathOf(last'.chain))
           => /\ Live(state'.root, c)
              /\ NodeAt(state'.root, c) = NodeAt(state.root, c)]_vars

\* id was set after a push had touched the list and given it a third item
C31_Witness ==
  /\ last.a = "set"
  /\ PathOf(last.chain) = <<Key("id")>>
  /\ state.root.fields.f["id"].value = Prim("b")
  /\ state.root.fields.f["list"].touched
  /\ Len(state.root.fields.f["list"].items.a) = 3

(***************************************************************************)
(* C32: in every reachable state the path of every node is the sequence of *)
(* keys and indices that leads to the node from the root.                  *)
(***************************************************************************)
C32_PathIsPosition ==
  \A c \in Chains(state.root, <<>>) : NodeAt(state.root, c).path = PathOf(c)

\* the former second item after remove(0), and the name field under it
C32_Witness ==
  /\ last.a = "remove"
  /\ last.index = 0
  /\ Len(state.root.fields.f["list"].items.a) = 1
  /\ state.root.fields.f["list"].items.a[1].fields.f["name"].value = Prim("b")
  /\ state.root.fields.f["list"].items.a[1].fields.f["name"].path
       = <<Key("list"), Idx(0), Key("name")>>

(***************************************************************************)
(* C33: in every reachable state the variant of every node is the one its  *)
(* value calls for: array for a sequence, complex for a keyed record,      *)
(* primitive for anything else (null included).                            *)
(***************************************************************************)
VariantFor(v) ==
  IF v.k = "arr" THEN "array" ELSE IF v.k = "obj" THEN "complex" ELSE "primitive"

C33_VariantMatchesValue ==
  \A n \in Nodes(state.root) : n.type = VariantFor(n.value)

(***************************************************************************)
(* C34: mutations issued back to back with no render in between are all    *)
(* applied in order.  After two consecutive push calls on one Array Field  *)
(* the last two items are the two pushed values at consecutive indices,    *)
(* and after two consecutive set calls on fields of different branches     *)
(* both fields hold the value they were set to.                            *)
(***************************************************************************)
BothPushed(prev, next) ==
  LET b == NodeAt(state.root, prev.chain).items.a
      a == NodeAt(state'.root, next.chain).items.a
      arr == PathOf(next.chain) IN
  /\ Len(a) = Len(b) + 1
  /\ Len(b) >= 1
  /\ a[Len(b)].value = prev.v
  /\ a[Len(b)].path = arr \o <<Idx(Len(b) - 1)>>
  /\ a[Len(a)].value = next.v
  /\ a[Len(a)].path = arr \o <<Idx(Len(b))>>

\* the positions of the nodes of a tree
Positions(root) == {PathOf(c) : c \in Chains(root, <<>>)}

\* the two fields exist when the second call is made (a handle whose item
\* was removed in between addresses no field)
BothSet(prev, next) ==
  IF {PathOf(prev.chain), PathOf(next.chain)} \subseteq Positions(state.root)
  THEN /\ {PathOf(prev.chain), PathOf(next.chain)} \subseteq Positions(state'.root)
       /\ NodeAt(state'.root, prev.chain).value = prev.v
       /\ NodeAt(state'.root, next.chain).value = next.v
  ELSE TRUE

C34_BatchInOrder ==
  [][(escaped = {} /\ state' # state)
       => /\ (last.a = "push" /\ last'.a = "push" /\ last.chain = last'.chain)
               => BothPushed(last, last')
          /\ (/\ last.a = "set" /\ last'.a = "set"
              /\ ~OnOneBranch(PathOf(last.chain), PathOf(last'.chain)))
               => BothSet(last, last')]_vars

C34_Witness ==
  /\ last.a = "push"
  /\ escaped = {}
  /\ Len(stateRef.root.fields.f.list.items.a) = 2
  /\ Len(state.root.fields.f.list.items.a) = 4

C34_WitnessSet ==
  /\ last.a = "set"
  /\ PathOf(last.chain) = <<Key("item")>>
  /\ escaped = {}
  /\ stateRef.root.fields.f.id.value = Prim("a")
  /\ state.root.fields.f.id.value = Prim("b")
  /\ state.root.fields.f.item.value = last.v
  /\ stateRef.root.fields.f.item.value # last.v

(***************************************************************************)
(* C35: validating never stays true once no validator run for that node is *)
(* pending: every node that is validating has a run in flight whose        *)
(* settling will clear the flag.                                           *)
(***************************************************************************)
C35_ValidatingHasRun ==
  \A c \in Chains(state.root, <<>>) :
    NodeAt(state.root, c).validating
      => \E i \in 1..Len(pending) : PathOf(pending[i].chain) = PathOf(c)

(***************************************************************************)
(* C36: a submit called right after a set, push or remove, before the hook *)
(* has re-rendered, works on the state that holds that mutation: the tree  *)
(* the cycle commits and hands to the validators has the values of the     *)
(* state the mutation left.                                                *)
(***************************************************************************)
C36_SubmitSeesLatest ==
  [][(last'.a = "submit" /\ last.a \in {"set", "push", "remove"})
       => /\ PlainOf(state'.root) = PlainOf(state.root)
          /\ LET sub == subs'[Len(subs')] IN
               sub.pc = "validating" => PlainOf(sub.cur.root) = PlainOf(state.root)]_vars

(***************************************************************************)
(* C37: touch on a node sets its touched and leaves its value, path and    *)
(* disabled as they were; on a node whose rule has no onChange function it *)
(* leaves the error as it was too, so an error stored by a submit          *)
(* validation pass survives the touch.                                     *)
(***************************************************************************)
C37_TouchFrame ==
  [][(/\ last'.a = "touch"
      /\ state' # state
      /\ PathOf(last'.chain) \in Positions(state.root))
       => LET p == PathOf(last'.chain)
              b == NodeAt(state.root, p)
              a == NodeAt(state'.root, p) IN
          /\ a.touched
          /\ a.value = b.value
          /\ a.path = b.path
          /\ a.disabled = b.disabled
          /\ ~HasOnChange(RuleAt(optionsRef.validation, p)) => a.error = b.error]_vars

(***************************************************************************)
(* C38: an error stored on a node by a submit validation pass is not       *)
(* removed or replaced by the settling of an asynchronous onChange run for *)
(* the value the pass validated: when such a run settles right after the   *)
(* pass has committed its tree, the node keeps the error of the pass.      *)
(***************************************************************************)
C38_SubmitErrorSurvivesSettle ==
  [][(/\ last.a = "validated"
      /\ last'.a = "settle"
      /\ subs[last.index].outcome = "invalid")
       => LET p == PathOf(last'.chain)
              v == subs[last.index].validated.root IN
          (/\ p \in Positions(v)
           /\ p \in Positions(state.root)
           /\ NodeAt(v, p).value = last'.v
           /\ TruthyError(NodeAt(v, p).error)
           /\ NodeAt(state.root, p).error = NodeAt(v, p).error)
            => /\ p \in Positions(state'.root)
               /\ NodeAt(state'.root, p).error = NodeAt(v, p).error]_vars

(***************************************************************************)
(* C39: remove(k) changes, for each remaining item, only its index and     *)
(* path: the touched and error of the item and of its descendants, and the *)
(* values of its descendants, are what they were before the removal.       *)
(***************************************************************************)
RECURSIVE Sticky(_)
Sticky(n) ==
  [touched |-> n.touched,
   error |-> n.error,
   below |-> IF n.type = "array" /\ n.items.k = "arr"
             THEN Arr([i \in 1..Len(n.items.a) |->
                        Obj([value |-> n.items.a[i].value,
                             rest |-> Sticky(n.items.a[i])])])
             ELSE IF n.type = "complex" /\ n.fields.k = "obj"
             THEN Obj([key \in DOMAIN n.fields.f |->
                        Obj([value |-> n.fields.f[key].value,
                             rest |-> Sticky(n.fields.f[key])])])
             ELSE Undefined]

C39_RemoveKeepsItems ==
  [][(/\ last'.a = "remove"
      /\ state' # state
      /\ PathOf(last'.chain) \in Positions(state.root))
       => LET b == NodeAt(state.root, PathOf(last'.chain)).items.a
              a == NodeAt(state'.root, PathOf(last'.chain)).items.a
              k == last'.index IN
          \A j \in 1..Len(a) :
            Sticky(a[j]) = Sticky(b[IF j - 1 < k THEN j ELSE j + 1])]_vars

============================================================================
